---- MODULE Spec2Model ----
(***************************************************************************)
(* Model of convert_missing_codes.py: the batch converter process_data and *)
(* the recoding pipeline (astype(str), recode_missing_data,                *)
(* handle_stratum_column, pd.to_numeric) it runs on every year's dataset.  *)
(*                                                                         *)
(* Texts are sequences of one-character strings.  A cell is a record       *)
(*   [k, s, n, e]  with k the kind of the Python object held by the cell:  *)
(*     "str"   a Python str, s its characters                              *)
(*     "miss"  a StataMissingValue, s its label ('.m', ...)                *)
(*     "int"   an integer n                                                *)
(*     "float" the decimal n / 10^e                                        *)
(*     "nan"   the null marker NaN                                         *)
(* pandas semantics are those of pandas 1.x/2.x, where astype(str) gives   *)
(* columns of dtype object.                                                *)
(***************************************************************************)
EXTENDS Integers, Sequences, FiniteSets, TLC

VARIABLES pc, idx, data, input, writes, log, stdout, txt, res, op

vars == <<pc, idx, data, input, writes, log, stdout, txt, res, op>>

---------------------------------------------------------------------------
(* Bounds *)

NumYears == 2
NumRows == 2
MaxLen == 4
MaxColLen == 3

FirstYear == 2016

---------------------------------------------------------------------------
(* Cells and texts *)

Str(s) == [k |-> "str", s |-> s, n |-> 0, e |-> 0]
Miss(s) == [k |-> "miss", s |-> s, n |-> 0, e |-> 0]
IntV(n) == [k |-> "int", s |-> <<>>, n |-> n, e |-> 0]
FloatV(n, e) == [k |-> "float", s |-> <<>>, n |-> n, e |-> e]
NaN == [k |-> "nan", s |-> <<>>, n |-> 0, e |-> 0]

DigitChar == <<"0", "1", "2", "3", "4", "5", "6", "7", "8", "9">>

Digits == {DigitChar[i] : i \in 1..10}

DigitVal(c) == (CHOOSE i \in 1..10 : DigitChar[i] = c) - 1

RECURSIVE Pow10(_)
Pow10(e) == IF e = 0 THEN 1 ELSE 10 * Pow10(e - 1)

RECURSIVE NatToStr(_)
NatToStr(n) == IF n < 10 THEN <<DigitChar[n + 1]>>
               ELSE NatToStr(n \div 10) \o <<DigitChar[(n % 10) + 1]>>

\* str(int)
IntToStr(n) == IF n < 0 THEN <<"-">> \o NatToStr(0 - n) ELSE NatToStr(n)

RECURSIVE PadLeft(_, _)
PadLeft(s, w) == IF Len(s) >= w THEN s ELSE PadLeft(<<"0">> \o s, w)

\* str(float) of the decimal n / 10^e (e >= 1, written without exponent)
FloatToStr(n, e) ==
    LET a == IF n < 0 THEN 0 - n ELSE n
    IN  (IF n < 0 THEN <<"-">> ELSE <<>>)
        \o NatToStr(a \div Pow10(e)) \o <<".">> \o PadLeft(NatToStr(a % Pow10(e)), e)

\* str(x) of the object a cell holds
PyStr(c) ==
    CASE c.k = "str" -> c.s
      [] c.k = "miss" -> c.s
      [] c.k = "int" -> IntToStr(c.n)
      [] c.k = "float" -> FloatToStr(c.n, c.e)
      [] OTHER -> <<"n", "a", "n">>

\* F applied to the value of v, computed once
Apply(F(_), v) == CHOOSE r \in {F(x) : x \in {v}} : TRUE

\* The sequence of F(x) for the x of s, in order
Map(F(_), s) == [i \in 1..Len(s) |-> F(s[i])] \o <<>>

---------------------------------------------------------------------------
(* Stage A: data.astype(str) *)

astype_cell(c) == Str(PyStr(c))

astype_column(c) ==
    [name |-> c.name, dtype |-> "object", cells |-> Map(astype_cell, c.cells)]

astype_str(d) == Map(astype_column, d)

---------------------------------------------------------------------------
(* Stage B: recode_missing_data *)

missing_code_map ==
    { <<<<".", "m">>, 996>>, <<<<".", "n">>, 997>>,
      <<<<".", "l">>, 998>>, <<<<".", "d">>, 999>> }

SentinelLabels == {p[1] : p \in missing_code_map}

CodeOf(s) == (CHOOSE p \in missing_code_map : p[1] = s)[2]

\* Faulty variant: the lookup matches a label at the start of the text (a regex replace)
replace_cell_prefix(c) ==
    IF c.k = "str" /\ Len(c.s) >= 2 /\ SubSeq(c.s, 1, 2) \in SentinelLabels
    THEN IntV(CodeOf(SubSeq(c.s, 1, 2)))
    ELSE c

\* Series.replace(dict) on one cell: a whole-value lookup of the cell's object
replace_cell(c) ==
    IF c.k = "str" /\ c.s \in SentinelLabels THEN IntV(CodeOf(c.s)) ELSE c

recode_column(c) ==
    IF c.dtype = "object"
    THEN [c EXCEPT !.cells = Map(replace_cell, c.cells)]
    ELSE c

recode_missing_data(d) == Map(recode_column, d)

---------------------------------------------------------------------------
(* Stage C: handle_stratum_column *)

\* Faulty variant: case=False left out
IsA_case_sensitive(ch) == ch = "A"

IsA(ch) == ch \in {"A", "a"}

\* Faulty variant: only the first match is replaced (n=1)
str_replace_first(s) ==
    IF \E i \in 1..(Len(s) - 1) : s[i] = "2" /\ IsA(s[i + 1])
    THEN LET p == CHOOSE i \in 1..(Len(s) - 1) :
                     /\ s[i] = "2" /\ IsA(s[i + 1])
                     /\ \A h \in 1..(i - 1) : ~(s[h] = "2" /\ IsA(s[h + 1]))
         IN  SubSeq(s, 1, p) \o SubSeq(s, p + 2, Len(s))
    ELSE s

\* re.sub('2A', '2', s, flags=IGNORECASE): one left-to-right pass over the
\* non-overlapping matches
RECURSIVE str_replace(_)
str_replace(s) ==
    IF Len(s) = 0 THEN <<>>
    ELSE IF Len(s) >= 2 /\ s[1] = "2" /\ IsA(s[2])
         THEN <<"2">> \o str_replace(SubSeq(s, 3, Len(s)))
         ELSE <<s[1]>> \o str_replace(SubSeq(s, 2, Len(s)))

\* Series.str.replace on an object column: elements that are not str give NaN
str_replace_cell(c) == IF c.k = "str" THEN Str(str_replace(c.s)) ELSE NaN

\* The .str accessor is refused (AttributeError) for a non-empty column that
\* holds no str at all
StrAccessorOk(c) ==
    Len(c.cells) = 0 \/ \E i \in DOMAIN c.cells : c.cells[i].k = "str"

HasStratum(d) == \E j \in DOMAIN d : d[j].name = "stratum"

StratumRaises(d) ==
    \E j \in DOMAIN d : d[j].name = "stratum" /\ ~StrAccessorOk(d[j])

\* Faulty variant: the replacement is applied whatever the column's name
stratum_column_any_name(c) == [c EXCEPT !.cells = Map(str_replace_cell, c.cells)]

stratum_column(c) ==
    IF c.name = "stratum"
    THEN [c EXCEPT !.cells = Map(str_replace_cell, c.cells)]
    ELSE c

handle_stratum_column(d, year) ==
    IF HasStratum(d) THEN Map(stratum_column, d) ELSE d

---------------------------------------------------------------------------
(* Stage D: pd.to_numeric(column, errors='coerce') *)

IsSpace(ch) == ch = " "

RECURSIVE LStrip(_)
LStrip(s) == IF Len(s) > 0 /\ IsSpace(s[1]) THEN LStrip(SubSeq(s, 2, Len(s))) ELSE s

RECURSIVE RStrip(_)
RStrip(s) == IF Len(s) > 0 /\ IsSpace(s[Len(s)]) THEN RStrip(SubSeq(s, 1, Len(s) - 1)) ELSE s

Strip(s) == RStrip(LStrip(s))

RECURSIVE DigitsToNat(_)
DigitsToNat(s) == IF Len(s) = 0 THEN 0
                  ELSE 10 * DigitsToNat(SubSeq(s, 1, Len(s) - 1)) + DigitVal(s[Len(s)])

AllDigits(s) == \A i \in DOMAIN s : s[i] \in Digits

Dots(s) == {i \in DOMAIN s : s[i] = "."}

\* An unsigned decimal literal: digits with at most one point, one digit at least
ParseUnsigned(s, sign) ==
    IF Len(s) > 0 /\ AllDigits(s)
    THEN IntV(sign * DigitsToNat(s))
    ELSE IF Cardinality(Dots(s)) = 1
         THEN LET p == CHOOSE i \in Dots(s) : TRUE
                  ip == SubSeq(s, 1, p - 1)
                  fp == SubSeq(s, p + 1, Len(s))
              IN  IF AllDigits(ip) /\ AllDigits(fp) /\ Len(ip) + Len(fp) > 0
                  THEN FloatV(sign * (DigitsToNat(ip) * Pow10(Len(fp)) + DigitsToNat(fp)),
                              Len(fp))
                  ELSE NaN
         ELSE NaN

ParseStripped(t) ==
    IF Len(t) = 0 THEN NaN
    ELSE IF t[1] = "-" THEN ParseUnsigned(SubSeq(t, 2, Len(t)), 0 - 1)
    ELSE IF t[1] = "+" THEN ParseUnsigned(SubSeq(t, 2, Len(t)), 1)
    ELSE ParseUnsigned(t, 1)

\* The parse of one str with errors='coerce': surrounding blanks are skipped,
\* a literal without a point is an integer, one with a point a float, and
\* anything else is NaN
parse_text(s) == Apply(ParseStripped, Strip(s))

\* Faulty variant: errors='ignore', a text that does not parse stays as it is
to_numeric_cell_ignore(c) ==
    CASE c.k = "str" -> IF parse_text(c.s) = NaN THEN c ELSE parse_text(c.s)
      [] c.k = "int" -> c
      [] c.k = "float" -> c
      [] OTHER -> NaN

to_numeric_cell(c) ==
    CASE c.k = "str" -> parse_text(c.s)
      [] c.k = "int" -> c
      [] c.k = "float" -> c
      [] OTHER -> NaN

\* Faulty variant: float64 only when a value has a fractional part
result_dtype_fraction(cells) ==
    IF \E i \in DOMAIN cells : cells[i].k = "float" /\ cells[i].n % Pow10(cells[i].e) # 0
    THEN "float64"
    ELSE "int64"

\* The dtype numpy gives the parsed column: int64 only when every value is an
\* integer, float64 as soon as one value is a float or NaN
result_dtype(cells) ==
    IF \A i \in DOMAIN cells : cells[i].k = "int" THEN "int64" ELSE "float64"

\* In a float64 column the integers are stored as floats
as_dtype(c, dtype) ==
    IF dtype = "float64" /\ c.k = "int" THEN FloatV(c.n, 0) ELSE c

\* The parsed values of a column's cells
parsed_cells(cells) == Map(to_numeric_cell, cells)

\* The parsed values as stored in a column of the given dtype
stored_cells(cells, dtype) == [i \in 1..Len(cells) |-> as_dtype(cells[i], dtype)] \o <<>>

\* The column of the parsed values, with the dtype they call for
typed_column(name, parsed) ==
    [name |-> name,
     dtype |-> result_dtype(parsed),
     cells |-> stored_cells(parsed, result_dtype(parsed))]

\* Faulty variant: the null cells are dropped from the column (dropna)
to_numeric_dropna(c) ==
    LET t == typed_column(c.name, parsed_cells(c.cells))
    IN  [t EXCEPT !.cells = SelectSeq(t.cells, LAMBDA x : x # NaN)]

to_numeric(c) ==
    CHOOSE r \in {typed_column(c.name, parsed) : parsed \in {parsed_cells(c.cells)}} : TRUE

to_numeric_all(d) == Map(to_numeric, d)

---------------------------------------------------------------------------
(* process_data: the batch loop *)

\* The years handed to process_data, as range(FirstYear, FirstYear + NumYears)
years == [i \in 1..NumYears |-> FirstYear + i - 1]

csv_dir == "download-nsch-data"

\* f"{csv_dir}/nsch_{year}_topical.dta"
dta_file(dir, year) == <<dir, "/nsch_", IntToStr(year), "_topical", ".dta">>

\* Faulty variant: the destination keeps the source's extension
output_file_dta(dir, year) == <<dir, "/nsch_", IntToStr(year), "_topical", ".dta">>

\* f"{csv_dir}/nsch_{year}_topical.rds"
output_file(dir, year) == <<dir, "/nsch_", IntToStr(year), "_topical", ".rds">>

\* f"Saved: {output_file}"
saved_line(path) == <<"Saved: ">> \o path

\* Objects pd.read_stata(convert_missing=True) puts in a cell: missing-value
\* sentinels kept as StataMissingValue, labels, integers, floats
CellPool ==
    { Miss(<<".", "m">>), Miss(<<".", "d">>), Str(<<"2", "A">>), IntV(1), FloatV(55, 1) }

\* Column names of the datasets read (Stata variable names are unique)
Layouts == { <<"c1", "stratum">>, <<"c1", "Stratum">> }

reader_dtype(cells) ==
    IF \A i \in DOMAIN cells : cells[i].k = "int" THEN "int64"
    ELSE IF \A i \in DOMAIN cells : cells[i].k \in {"int", "float"} THEN "float64"
    ELSE "object"

RECURSIVE ColumnsOver(_, _)
ColumnsOver(pool, n) ==
    IF n = 0 THEN {<<>>}
    ELSE {<<c>> \o t : c \in pool, t \in ColumnsOver(pool, n - 1)}

\* The cells of one column as read
ReadColumns == ColumnsOver(CellPool, NumRows)

\* The dataset of two columns named names holding the cells c1 and c2
Dataset(names, c1, c2) ==
    << [name |-> names[1], dtype |-> reader_dtype(c1), cells |-> c1],
       [name |-> names[2], dtype |-> reader_dtype(c2), cells |-> c2] >>

NoPath == <<>>

Event(ev, year, path) == [ev |-> ev, year |-> year, path |-> path]

year_now == years[idx]

Init ==
    /\ pc = "read"
    /\ idx = 1
    /\ data = <<>>
    /\ input = <<>>
    /\ writes = [y \in {years[i] : i \in DOMAIN years} |-> 0]
    /\ log = <<>>
    /\ stdout = <<>>
    /\ txt = <<>>
    /\ res = <<>>
    /\ op = "batch"

\* pd.read_stata(dta_file, convert_missing=True) returns a dataset
ReadOk ==
    /\ pc = "read"
    /\ \E names \in Layouts, c1 \in ReadColumns, c2 \in ReadColumns :
          /\ data' = Dataset(names, c1, c2)
          /\ input' = data'
    /\ log' = Append(log, Event("read", year_now, dta_file(csv_dir, year_now)))
    /\ pc' = "astype"
    /\ UNCHANGED <<idx, writes, stdout, txt, res, op>>

\* Faulty variant: the failure is caught and the loop goes on with the next year
ReadFailSkip ==
    /\ pc = "read"
    /\ log' = Append(log, Event("fail", year_now, NoPath))
    /\ IF idx < Len(years)
       THEN idx' = idx + 1 /\ pc' = "read"
       ELSE idx' = idx /\ pc' = "done"
    /\ UNCHANGED <<data, input, writes, stdout, txt, res, op>>

\* pd.read_stata raises (file absent, unreadable or malformed): nothing catches it
ReadFail ==
    /\ pc = "read"
    /\ log' = Append(log, Event("fail", year_now, NoPath))
    /\ pc' = "halted"
    /\ UNCHANGED <<idx, data, input, writes, stdout, txt, res, op>>

\* data = data.astype(str)
AstypeStr ==
    /\ pc = "astype"
    /\ data' = astype_str(data)
    /\ pc' = "recode"
    /\ UNCHANGED <<idx, input, writes, log, stdout, txt, res, op>>

\* data = recode_missing_data(data)
Recode ==
    /\ pc = "recode"
    /\ data' = recode_missing_data(data)
    /\ pc' = "stratum"
    /\ UNCHANGED <<idx, input, writes, log, stdout, txt, res, op>>

\* data = handle_stratum_column(data, year)
Stratum ==
    /\ pc = "stratum"
    /\ StratumRaises(data) = FALSE
    /\ data' = handle_stratum_column(data, year_now)
    /\ pc' = "numeric"
    /\ UNCHANGED <<idx, input, writes, log, stdout, txt, res, op>>

\* The .str accessor raises AttributeError inside handle_stratum_column
StratumFail ==
    /\ pc = "stratum"
    /\ StratumRaises(data) = TRUE
    /\ log' = Append(log, Event("fail", year_now, NoPath))
    /\ pc' = "halted"
    /\ UNCHANGED <<idx, data, input, writes, stdout, txt, res, op>>

\* for col in data.columns: data[col] = pd.to_numeric(data[col], errors='coerce')
ToNumeric ==
    /\ pc = "numeric"
    /\ data' = to_numeric_all(data)
    /\ log' = Append(log, Event("transform", year_now, NoPath))
    /\ pc' = "write"
    /\ UNCHANGED <<idx, input, writes, stdout, txt, res, op>>

\* pyreadr.write_rds(output_file, data) creates or overwrites the destination
WriteOk ==
    /\ pc = "write"
    /\ writes' = [writes EXCEPT ![year_now] = @ + 1]
    /\ log' = Append(log, Event("write", year_now, output_file(csv_dir, year_now)))
    /\ pc' = "print"
    /\ UNCHANGED <<idx, data, input, stdout, txt, res, op>>

\* pyreadr.write_rds raises (directory missing or not writable)
WriteFail ==
    /\ pc = "write"
    /\ log' = Append(log, Event("fail", year_now, NoPath))
    /\ pc' = "halted"
    /\ UNCHANGED <<idx, data, input, writes, stdout, txt, res, op>>

\* print(f"Saved: {output_file}"), then the next year or the end of the loop.
\* The iteration's dataset is never used again: it is dropped here.
PrintSaved ==
    /\ pc = "print"
    /\ stdout' = Append(stdout, saved_line(output_file(csv_dir, year_now)))
    /\ log' = Append(log, Event("saved", year_now, output_file(csv_dir, year_now)))
    /\ IF idx < Len(years)
       THEN idx' = idx + 1 /\ pc' = "read"
       ELSE idx' = idx /\ pc' = "done"
    /\ data' = <<>>
    /\ input' = <<>>
    /\ UNCHANGED <<writes, txt, res, op>>

Next ==
    \/ ReadOk
    \/ ReadFail
    \/ AstypeStr
    \/ Recode
    \/ Stratum
    \/ StratumFail
    \/ ToNumeric
    \/ WriteOk
    \/ WriteFail
    \/ PrintSaved

Spec == Init /\ [][Next]_vars

\* Every statement of the loop body returns or raises, so the loop never stays
\* where it is.  ReadOk and ReadFail are enabled in the same states and both
\* leave them: weak fairness of ReadFail alone keeps the loop from staying at
\* the read.
SpecLive ==
    /\ Spec
    /\ WF_vars(ReadFail)
    /\ WF_vars(AstypeStr)
    /\ WF_vars(Recode)
    /\ WF_vars(Stratum \/ StratumFail)
    /\ WF_vars(ToNumeric)
    /\ WF_vars(WriteOk \/ WriteFail)
    /\ WF_vars(PrintSaved)

---------------------------------------------------------------------------
(* The stages applied to one cell of text *)

Alphabet == {"2", "A", "a", ".", "m", "5"}

RECURSIVE TextsOfLen(_)
TextsOfLen(n) ==
    IF n = 0 THEN {<<>>}
    ELSE {<<ch>> \o t : ch \in Alphabet, t \in TextsOfLen(n - 1)}

RECURSIVE TextsUpTo(_)
TextsUpTo(n) == IF n = 0 THEN TextsOfLen(0) ELSE TextsOfLen(n) \cup TextsUpTo(n - 1)

ExtraTexts ==
    { <<".", "M">>, <<".", "m", "m">>, <<"x", ".", "m">>, <<" ", ".", "m">>,
      <<".", "n">>, <<".", "l">>, <<".", "d">>, <<".", "D">>,
      <<"9", "9", "6">>, <<"9", "9", "7">>, <<"9", "9", "8">>, <<"9", "9", "9">>,
      <<"1">>, <<"1", "2", "A">>, <<"2", "A", "B">>, <<"a", "b", "c">>,
      <<"-", "1">>, <<"+", "5">>, <<" ", "5", " ">>, <<"0", "5">> }

Texts == TextsUpTo(MaxLen) \cup ExtraTexts

\* A dataset of one column holding one cell
OneCell(name, c) == << [name |-> name, dtype |-> "object", cells |-> <<c>>] >>

CellOf(d) == d[1].cells[1]

InitStr ==
    /\ pc = "cell"
    /\ idx = 1
    /\ data = <<>>
    /\ input = <<>>
    /\ writes = [y \in {years[i] : i \in DOMAIN years} |-> 0]
    /\ log = <<>>
    /\ stdout = <<>>
    /\ txt \in Texts
    /\ res = <<>>
    /\ op = "none"

\* recode_missing_data on a column holding the text
RecodeCell ==
    /\ pc = "cell" /\ op = "none"
    /\ res' = <<CellOf(recode_missing_data(OneCell("c1", Str(txt))))>>
    /\ op' = "recode"
    /\ UNCHANGED <<pc, idx, data, input, writes, log, stdout, txt>>

\* handle_stratum_column on a 'stratum' column holding the text
StratumCell ==
    /\ pc = "cell" /\ op = "none"
    /\ res' = <<CellOf(handle_stratum_column(OneCell("stratum", Str(txt)), FirstYear))>>
    /\ op' = "stratum"
    /\ UNCHANGED <<pc, idx, data, input, writes, log, stdout, txt>>

\* handle_stratum_column applied to its own result
StratumAgain ==
    /\ pc = "cell" /\ op = "stratum"
    /\ res' = Append(res, CellOf(handle_stratum_column(OneCell("stratum", res[1]), FirstYear)))
    /\ op' = "stratum2"
    /\ UNCHANGED <<pc, idx, data, input, writes, log, stdout, txt>>

\* pd.to_numeric(errors='coerce') on a column holding the text
NumericCell ==
    /\ pc = "cell" /\ op = "none"
    /\ res' = <<CellOf(to_numeric_all(OneCell("c1", Str(txt))))>>
    /\ op' = "numeric"
    /\ UNCHANGED <<pc, idx, data, input, writes, log, stdout, txt>>

NextStr ==
    \/ RecodeCell
    \/ StratumCell
    \/ StratumAgain
    \/ NumericCell

SpecStr == InitStr /\ [][NextStr]_vars

---------------------------------------------------------------------------
(* pd.to_numeric applied to one column *)

\* Objects a column holds when Stage D starts
ColumnPool ==
    { Str(<<"1">>), Str(<<"5", ".", "5">>), Str(<<"5", ".", "0">>),
      Str(<<"a", "b", "c">>), IntV(999) }

RECURSIVE ColumnsUpTo(_)
ColumnsUpTo(n) ==
    IF n = 1 THEN ColumnsOver(ColumnPool, 1)
    ELSE ColumnsOver(ColumnPool, n) \cup ColumnsUpTo(n - 1)

InitCol ==
    /\ pc = "column"
    /\ idx = 1
    /\ \E cs \in ColumnsUpTo(MaxColLen) :
          /\ data = << [name |-> "c2", dtype |-> "object", cells |-> cs] >>
          /\ input = data
    /\ writes = [y \in {years[i] : i \in DOMAIN years} |-> 0]
    /\ log = <<>>
    /\ stdout = <<>>
    /\ txt = <<>>
    /\ res = <<>>
    /\ op = "none"

\* data[col] = pd.to_numeric(data[col], errors='coerce')
NumericColumn ==
    /\ pc = "column" /\ op = "none"
    /\ data' = to_numeric_all(data)
    /\ op' = "to_numeric"
    /\ UNCHANGED <<pc, idx, input, writes, log, stdout, txt, res>>

NextCol == NumericColumn

SpecCol == InitCol /\ [][NextCol]_vars

---------------------------------------------------------------------------
(* Claims about one cell of text (SpecStr) *)

\* Positions where a '2' is directly followed by 'A' or 'a'
Occurrences2A(t) ==
    {i \in 1..(Len(t) - 1) : t[i] = "2" /\ t[i + 1] \in {"A", "a"}}

\* Positions where a '2' is directly followed by two letters 'A'/'a'
Occurrences2AA(t) ==
    {i \in 1..(Len(t) - 2) :
        t[i] = "2" /\ t[i + 1] \in {"A", "a"} /\ t[i + 2] \in {"A", "a"}}

WholeLabels2A == { <<"2", "A">>, <<"2", "a">> }

FourLabels == { <<".", "m">>, <<".", "n">>, <<".", "l">>, <<".", "d">> }

\* C2 as stated: for every text of a 'stratum' cell, applying
\* handle_stratum_column twice gives the same cell as applying it once.
C2_IdempotentEveryText ==
    op = "stratum2" => res[2] = res[1]

\* C2 amended: applying handle_stratum_column twice gives the same cell as
\* applying it once exactly for the texts in which no '2' is directly followed
\* by two letters 'A'/'a'; for a text holding such a run ('2AA', '22AA') the
\* second application removes one more letter.
C2_IdempotentUnlessRun ==
    op = "stratum2" =>
        /\ (Occurrences2AA(txt) = {}) <=> (res[2] = res[1])
        /\ Occurrences2AA(txt) # {} => Len(res[2].s) < Len(res[1].s)

C2_Witness ==
    /\ op = "stratum2"
    /\ txt = <<"2", "A", "2", "a">>
    /\ res[1] = Str(<<"2", "2">>)
    /\ res[2] = res[1]

\* C7 as stated: handle_stratum_column changes a 'stratum' cell only when the
\* whole text is '2A' or '2a', which becomes '2'; every other text is unchanged.
C7_WholeLabelOnly ==
    op = "stratum" =>
        /\ txt \in WholeLabels2A => res[1] = Str(<<"2">>)
        /\ txt \notin WholeLabels2A => res[1] = Str(txt)

\* C7 amended: handle_stratum_column rewrites every occurrence of '2A'/'2a'
\* inside the text of a 'stratum' cell, not only a whole-cell label: the cell
\* changes exactly when its text contains a '2' directly followed by 'A' or
\* 'a', each occurrence loses its letter ('2A' and '2a' become '2', '12A'
\* becomes '12', '2AB' becomes '2B'), and a text without an occurrence is
\* unchanged.
C7_EveryOccurrence ==
    op = "stratum" =>
        /\ res[1].k = "str"
        /\ (res[1] # Str(txt)) <=> (Occurrences2A(txt) # {})
        /\ Len(res[1].s) = Len(txt) - Cardinality(Occurrences2A(txt))
        /\ txt \in WholeLabels2A => res[1] = Str(<<"2">>)
        /\ txt = <<"1", "2", "A">> => res[1] = Str(<<"1", "2">>)
        /\ txt = <<"2", "A", "B">> => res[1] = Str(<<"2", "B">>)

C7_Witness ==
    /\ op = "stratum"
    /\ txt = <<"1", "2", "A">>
    /\ res[1] = Str(<<"1", "2">>)

\* C9: recode_missing_data leaves unchanged every cell whose text is not
\* exactly one of '.m', '.n', '.l', '.d' ('.M', '.mm', 'x.m', ' .m' and the
\* texts '996'..'999' pass through), so a column without a sentinel label is
\* returned with its cells unchanged.
C9_RecodeExactLookup ==
    op = "recode" =>
        /\ txt \notin FourLabels => res[1] = Str(txt)
        /\ txt \in FourLabels => res[1].k = "int"

C9_Witness ==
    /\ op = "recode"
    /\ txt = <<".", "m", "m">>
    /\ res[1] = Str(<<".", "m", "m">>)

---------------------------------------------------------------------------
(* Claims about the batch (Spec, SpecLive) *)

\* The dataset in data is the one handed to pyreadr.write_rds
HandedToWriter == pc \in {"write", "print"}

LabelCode(t) ==
    CASE t = <<".", "m">> -> 996
      [] t = <<".", "n">> -> 997
      [] t = <<".", "l">> -> 998
      [] OTHER -> 999

\* The cell holds the number v
NumEq(c, v) ==
    \/ c.k = "int" /\ c.n = v
    \/ c.k = "float" /\ c.n = v * Pow10(c.e)

IsNumberOrNull(c) == c.k \in {"int", "float", "nan"}

\* The cell read from the source shows as one of the four sentinel labels
ReadsAsSentinel(c) == c.k \in {"miss", "str"} /\ c.s \in FourLabels

\* C1: in every column, 'stratum' included, a cell whose text after
\* stringification is exactly '.m', '.n', '.l' or '.d' is the number 996, 997,
\* 998 or 999 in the dataset handed to the writer, never a null marker.
C1_SentinelsRecodedEverywhere ==
    HandedToWriter =>
        \A j \in DOMAIN input : \A i \in DOMAIN input[j].cells :
            ReadsAsSentinel(input[j].cells[i]) =>
                NumEq(data[j].cells[i], LabelCode(input[j].cells[i].s))

YearsFrom(y) == {years[i] : i \in {k \in DOMAIN years : years[k] >= y}}

YearsBefore(y) == {years[i] : i \in {k \in DOMAIN years : years[k] < y}}

EventsOf(y, evs) == {k \in DOMAIN log : log[k].year = y /\ log[k].ev \in evs}

LinesOf(y) ==
    {k \in DOMAIN stdout :
        stdout[k] = <<"Saved: ", "download-nsch-data", "/nsch_",
                      IntToStr(y), "_topical", ".rds">>}

\* C3: when the read, the transform or the write of year y fails the batch
\* halts at y: no destination file is written and no 'Saved:' line is emitted
\* for y or a later year, and the destination files of the years before y
\* stay as written, neither removed nor rewritten.
C3_FailFastNoRollback ==
    \A k \in DOMAIN log :
        log[k].ev = "fail" =>
            /\ k = Len(log)
            /\ pc = "halted"
            /\ \A y \in YearsFrom(log[k].year) :
                  /\ writes[y] = 0
                  /\ LinesOf(y) = {}
                  /\ EventsOf(y, {"write", "saved"}) = {}
            /\ \A y \in YearsBefore(log[k].year) :
                  /\ writes[y] = 1
                  /\ Cardinality(LinesOf(y)) = 1

C3_Witness ==
    /\ pc = "halted"
    /\ Len(log) = 5
    /\ log[5] = Event("fail", 2017, NoPath)
    /\ writes[2016] = 1
    /\ writes[2017] = 0
    /\ Len(stdout) = 1

\* C4: the dataset handed to the writer has the column names, in the same
\* order, and the row count of the dataset the reader returned.
C4_ShapePreserved ==
    HandedToWriter =>
        /\ Len(data) = Len(input)
        /\ \A j \in DOMAIN input :
              /\ data[j].name = input[j].name
              /\ Len(data[j].cells) = Len(input[j].cells)

C4_Witness ==
    /\ pc = "write"
    /\ input[2].name = "stratum"
    /\ input[2].cells[1] = Str(<<"2", "A">>)
    /\ data[2].cells[1] # input[2].cells[1]
    /\ data[1].cells[1] = NaN
    /\ Len(data) = 2
    /\ data[2].name = "stratum"

\* A stage of the current year's transform raised
TransformFailed ==
    /\ pc = "halted"
    /\ Len(log) >= 2
    /\ log[Len(log)].ev = "fail"
    /\ log[Len(log) - 1].ev = "read"

\* C5: every cell handed to the writer is a number or the null marker, never
\* text; a cell whose text is not a number becomes null, the cells beside it
\* keep their numbers, and no such cell makes the transform raise.
C5_NumericOrNull ==
    /\ HandedToWriter =>
          \A j \in DOMAIN data :
              /\ data[j].dtype \in {"int64", "float64"}
              /\ \A i \in DOMAIN data[j].cells :
                    /\ IsNumberOrNull(data[j].cells[i])
                    /\ (data[j].name # "stratum" /\ input[j].cells[i] = Str(<<"2", "A">>))
                          => data[j].cells[i] = NaN
                    /\ input[j].cells[i] = IntV(1) => NumEq(data[j].cells[i], 1)
                    /\ input[j].cells[i] = FloatV(55, 1) => data[j].cells[i] = FloatV(55, 1)
    /\ TransformFailed =>
          \E j \in DOMAIN input :
              /\ input[j].name = "stratum"
              /\ \A i \in DOMAIN input[j].cells : input[j].cells[i].k = "miss"

C5_Witness ==
    /\ pc = "print"
    /\ input[1].cells = <<Str(<<"2", "A">>), IntV(1)>>
    /\ data[1].cells = <<NaN, FloatV(1, 0)>>

YearText(y) == <<"2", "0", IF y < 2020 THEN "1" ELSE "2", DigitChar[(y % 10) + 1]>>

SourcePath(y) == <<"download-nsch-data", "/nsch_", YearText(y), "_topical", ".dta">>

DestPath(y) == <<"download-nsch-data", "/nsch_", YearText(y), "_topical", ".rds">>

ExpectedEvents(y) ==
    << Event("read", y, SourcePath(y)), Event("transform", y, NoPath),
       Event("write", y, DestPath(y)), Event("saved", y, DestPath(y)) >>

RECURSIVE ExpectedLog(_)
ExpectedLog(n) ==
    IF n = 0 THEN <<>> ELSE ExpectedLog(n - 1) \o ExpectedEvents(2015 + n)

RECURSIVE ExpectedStdout(_)
ExpectedStdout(n) ==
    IF n = 0 THEN <<>> ELSE Append(ExpectedStdout(n - 1), <<"Saved: ">> \o DestPath(2015 + n))

IsPrefix(a, b) == Len(a) <= Len(b) /\ SubSeq(b, 1, Len(a)) = a

NoFailure == \A k \in DOMAIN log : log[k].ev # "fail"

C6_Ordered ==
    /\ NoFailure =>
          /\ IsPrefix(log, ExpectedLog(NumYears))
          /\ stdout = ExpectedStdout(Len(log) \div 4)
          /\ \A i \in DOMAIN years :
                writes[years[i]] = Cardinality(EventsOf(years[i], {"write"}))
    /\ pc = "done" =>
          /\ log = ExpectedLog(NumYears)
          /\ stdout = ExpectedStdout(NumYears)
          /\ \A i \in DOMAIN years : writes[years[i]] = 1

NoStratumColumn(d) == \A j \in DOMAIN d : d[j].name # "stratum"

\* C10: handle_stratum_column leaves every column not named 'stratum' as it
\* was (cells reading '2A' included); on a dataset without a 'stratum' column
\* it returns the dataset unchanged, raises nothing, and the batch goes on to
\* numeric coercion and the write.
C10_OnlyStratumTouched ==
    [][/\ pc = "stratum" =>
            /\ \A j \in DOMAIN data : data[j].name # "stratum" => data'[j] = data[j]
            /\ NoStratumColumn(data) => (data' = data /\ pc' = "numeric")
       /\ pc = "numeric" => pc' = "write"]_vars

C10_Witness ==
    /\ pc = "write"
    /\ NoStratumColumn(input)
    /\ input[2].name = "Stratum"
    /\ input[2].cells[1] = Str(<<"2", "A">>)
    /\ data[2].cells[1] = NaN
    /\ input[1].cells[1] = Str(<<"2", "A">>)
    /\ data[1].cells[1] = NaN

---------------------------------------------------------------------------
(* Claims about pd.to_numeric on one column (SpecCol) *)

HasFraction(c) == c.k = "float" /\ c.n % Pow10(c.e) # 0

HasPoint(c) == c.k = "str" /\ \E i \in DOMAIN c.s : c.s[i] = "."

\* C8 as stated: after Stage D a column is floating-point if and only if one
\* of its parsed values has a fractional part; a column whose parseable values
\* are all integers is an integer column, also when some cells became null.
C8_FloatIffFraction ==
    op = "to_numeric" =>
        (data[1].dtype = "float64") <=> (\E i \in DOMAIN data[1].cells : HasFraction(data[1].cells[i]))

\* C8 amended: after Stage D a column is an integer column only when every
\* cell parsed as an integer; it is floating-point as soon as one cell failed
\* to parse and became null or one cell's text is written with a decimal
\* point, with or without a fractional part ('5.0'), and then its integers
\* are stored as floats.
C8_FloatIffNullOrPoint ==
    op = "to_numeric" =>
        /\ (data[1].dtype = "float64") <=>
              (\E i \in DOMAIN data[1].cells :
                  data[1].cells[i] = NaN \/ HasPoint(input[1].cells[i]))
        /\ data[1].dtype \in {"int64", "float64"}
        /\ data[1].dtype = "int64" => \A i \in DOMAIN data[1].cells : data[1].cells[i].k = "int"
        /\ data[1].dtype = "float64" =>
              \A i \in DOMAIN data[1].cells : data[1].cells[i].k \in {"float", "nan"}

C8_Witness ==
    /\ op = "to_numeric"
    /\ input[1].cells = <<Str(<<"a", "b", "c">>), IntV(999), Str(<<"1">>)>>
    /\ data[1].dtype = "float64"
    /\ data[1].cells = <<NaN, FloatV(999, 0), FloatV(1, 0)>>

====
